---- MODULE Spec2Model ----
(***************************************************************************)
(* Model of server.js: the kuromoji tokenizer cache (initTokenizer,        *)
(* startServer), the two request handlers (/api/analyze and                *)
(* /api/analyze-multiple) and the statistics they compute                  *)
(* (generateSummary, generateAggregatedSummary).                           *)
(*                                                                         *)
(* Conventions.  A character string the code measures or uses as an object *)
(* key (a surface form) is a sequence of one-character strings, so that    *)
(* .length is Len.  The part-of-speech tag the code compares with, the     *)
(* Japanese word for "noun" (server.js line 331), is written "meishi";     *)
(* "joshi" stands for the particle tag.  A JavaScript value that can be a  *)
(* number or something else is a record [t, v] with t its kind.            *)
(***************************************************************************)
EXTENDS Integers, Sequences, FiniteSets, TLC

VARIABLES tokenizer, builds, inflight, srv, hpc, req, idx, results, errors,
          fetches, tokCalls, response

vars == <<tokenizer, builds, inflight, srv, hpc, req, idx, results, errors,
          fetches, tokCalls, response>>

----------------------------------------------------------------------------
(* Bounds of the model *)

\* longest urls list the requests are drawn from (besides the two long lists)
MaxUrls == 2

\* number of morphemes of the long page
LongLen == 101

----------------------------------------------------------------------------
(* JavaScript values *)

NULL == "null"

Undefined == [kind |-> "undefined"]

Num(n) == [t |-> "number", v |-> n]

NaN == [t |-> "NaN", v |-> 0]

Infinity == [t |-> "Infinity", v |-> 0]

\* the string "function Object() { [native code] }" (the text of the
\* inherited function) followed by n digits "1": what the + of line 332 makes
\* of an inherited member such as Object.prototype.constructor
NativeText(n) == [t |-> "string", v |-> n]

IsNumber(x) == x.t = "number"

Meishi == "meishi"

Joshi == "joshi"

----------------------------------------------------------------------------
(* Plain objects used as maps: wordFreq = {} and tagWordFreq[tag] = {} *)

Digit == <<"0", "1", "2", "3", "4", "5", "6", "7", "8", "9">>

IsDigit(c) == \E d \in 1..10 : Digit[d] = c

DigitValue(c) == (CHOOSE d \in 1..10 : Digit[d] = c) - 1

\* 2^32 - 2, the largest array index, digit by digit
MaxArrayIndex == <<"4", "2", "9", "4", "9", "6", "7", "2", "9", "4">>

\* numeric order of two canonical digit strings
IndexLess(a, b) ==
    \/ Len(a) < Len(b)
    \/ /\ Len(a) = Len(b)
       /\ \E i \in 1..Len(a) :
            /\ DigitValue(a[i]) < DigitValue(b[i])
            /\ \A j \in 1..(i - 1) : a[j] = b[j]

\* a property key that is a canonical array index ("10", "2023"; not "007")
IsArrayIndex(k) ==
    /\ Len(k) >= 1
    /\ \A i \in 1..Len(k) : IsDigit(k[i])
    /\ (Len(k) = 1 \/ k[1] /= "0")
    /\ ~IndexLess(MaxArrayIndex, k)

\* names every object literal inherits from Object.prototype and that are
\* made of letters only (one alphabetic token of the tokenizer)
ProtoKeys ==
    { <<"c", "o", "n", "s", "t", "r", "u", "c", "t", "o", "r">>,
      <<"t", "o", "S", "t", "r", "i", "n", "g">>,
      <<"v", "a", "l", "u", "e", "O", "f">>,
      <<"h", "a", "s", "O", "w", "n", "P", "r", "o", "p", "e", "r", "t", "y">>,
      <<"i", "s", "P", "r", "o", "t", "o", "t", "y", "p", "e", "O", "f">>,
      <<"t", "o", "L", "o", "c", "a", "l", "e", "S", "t", "r", "i", "n", "g">> }

\* An object is the sequence of its own properties [key, value] in the order
\* they were created.
HasOwn(obj, k) == \E i \in 1..Len(obj) : obj[i].key = k

OwnValue(obj, k) == obj[CHOOSE i \in 1..Len(obj) : obj[i].key = k].value

\* obj[k] = v
PutOwn(obj, k, v) ==
    IF HasOwn(obj, k)
    THEN [i \in 1..Len(obj) |-> IF obj[i].key = k
                                THEN [key |-> k, value |-> v]
                                ELSE obj[i]]
    ELSE Append(obj, [key |-> k, value |-> v])

IsIndexEntry(e) == IsArrayIndex(e.key)

IsNamedEntry(e) == ~IsArrayIndex(e.key)

\* the entries of s in the order given by the strict total order of their keys
SortByIndex(s) ==
    LET n == Len(s)
        Rank(i) == Cardinality({j \in 1..n : IndexLess(s[j].key, s[i].key)}) + 1
    IN  [k \in 1..n |-> s[CHOOSE i \in 1..n : Rank(i) = k]]

\* Object.entries(obj): array-index keys in ascending numeric order, then the
\* other keys in creation order
ObjectEntries(obj) ==
    SortByIndex(SelectSeq(obj, IsIndexEntry)) \o SelectSeq(obj, IsNamedEntry)

Take(s, n) == SubSeq(s, 1, IF Len(s) < n THEN Len(s) ELSE n)

----------------------------------------------------------------------------
(* Array.prototype.sort with a comparator *)

\* cmp is the comparator's results, [<<i, j>> |-> -1, 0 or 1]; a NaN result
\* counts as 0.  A consistent comparator yields the stable order; an
\* inconsistent one leaves the order to the implementation.
ConsistentComparator(n, cmp) ==
    \A a, b, c \in 1..n :
        (cmp[<<a, b>>] = 0 /\ cmp[<<b, c>>] = 0) => cmp[<<a, c>>] = 0

StableOrder(n, cmp) ==
    LET Before(j, i) == cmp[<<j, i>>] < 0 \/ (cmp[<<j, i>>] = 0 /\ j < i)
        Rank(i) == Cardinality({j \in 1..n : Before(j, i)}) + 1
    IN  [k \in 1..n |-> CHOOSE i \in 1..n : Rank(i) = k]

SortOrders(n, cmp) ==
    IF ConsistentComparator(n, cmp)
    THEN {StableOrder(n, cmp)}
    ELSE Permutations(1..n)

Sign(x) == IF x < 0 THEN -1 ELSE IF x > 0 THEN 1 ELSE 0

----------------------------------------------------------------------------
(* Arithmetic of the percentages *)

\* a / b rounded to the nearest integer, halves up (toFixed on a quotient of
\* small integers), for a >= 0 and b > 0
RoundDiv(a, b) == (2 * a + b) \div (2 * b)

\* parseFloat(((totalChars / totalTextLength) * 100).toFixed(2)), a number
\* being kept in hundredths.  Dividing by 0 gives Infinity, or NaN for 0 / 0.
Percentage(totalChars, totalTextLength) ==
    IF ~IsNumber(totalChars) THEN NaN
    ELSE IF totalTextLength = 0
         THEN (IF totalChars.v = 0 THEN NaN ELSE Infinity)
         ELSE Num(RoundDiv(totalChars.v * 10000, totalTextLength))

\* parseFloat(((size / n) * 100).toFixed(1)), kept in tenths
SitePercentage(size, n) ==
    IF n = 0 THEN (IF size = 0 THEN NaN ELSE Infinity)
    ELSE Num(RoundDiv(size * 1000, n))

\* word.length * count
Times(len, count) == IF IsNumber(count) THEN Num(len * count.v) ELSE NaN

----------------------------------------------------------------------------
(* generateSummary *)

TopWordsLimit == 10

\* a token the frequency maps count: a noun longer than one character
Counted(pos, surface) == pos = Meishi /\ Len(surface) > 1

\* The keys a counting loop creates, in the order it creates them, each with
\* the number of times it is counted: words is the sequence of the keys the
\* loop counts.
FirstOccurrenceCounts(words) ==
    LET n == Len(words)
        IsFirst(i) == \A j \in 1..(i - 1) : words[j] /= words[i]
        firsts == SelectSeq([i \in 1..n |-> i], IsFirst)
    IN  [x \in 1..Len(firsts) |->
            [key |-> words[firsts[x]],
             n   |-> Cardinality({i \in 1..n : words[i] = words[firsts[x]]})]]

\* (wordFreq[k] || 0) + 1 applied n times to a key that starts absent: an
\* ordinary key counts 1, 2, ...; an inherited key reads as the inherited
\* function, which is truthy, and + appends "1" to its text each time
CountValue(k, n) == IF k \in ProtoKeys THEN NativeText(n) ELSE Num(n)

IsCountedToken(token) == Counted(token.pos, token.surface_form)

\* wordFreq after the forEach of lines 326-334
CountWords(tokens) ==
    LET sel == SelectSeq(tokens, IsCountedToken)
        counts == FirstOccurrenceCounts([i \in 1..Len(sel) |-> sel[i].surface_form])
    IN  [x \in 1..Len(counts) |->
            [key |-> counts[x].key, value |-> CountValue(counts[x].key, counts[x].n)]]

\* posCount after the forEach (the tags are the tokenizer's own)
CountPos(tokens) ==
    [p \in {tokens[i].pos : i \in 1..Len(tokens)} |->
        Cardinality({i \in 1..Len(tokens) : tokens[i].pos = p})]

\* (a, b) => b[1] - a[1]; the difference is NaN unless both are numbers
CompareCount(a, b) ==
    IF IsNumber(a.value) /\ IsNumber(b.value)
    THEN Sign(b.value.v - a.value.v)
    ELSE 0

TopWord(e, totalTextLength) ==
    [word       |-> e.key,
     count      |-> e.value,
     totalChars |-> Times(Len(e.key), e.value),
     percentage |-> Percentage(Times(Len(e.key), e.value), totalTextLength)]

\* The values generateSummary can return: one, unless the comparator is
\* inconsistent and the sort's order is the implementation's.
generateSummary(tokens, totalTextLength) ==
    LET entries == ObjectEntries(CountWords(tokens))
        n == Len(entries)
        cmp == [p \in (1..n) \X (1..n) |->
                   CompareCount(entries[p[1]], entries[p[2]])]
        Top(order) == Take([k \in 1..n |-> entries[order[k]]], TopWordsLimit)
    IN  { [posCount |-> CountPos(tokens),
           topWords |-> [k \in 1..Len(Top(order)) |->
                            TopWord(Top(order)[k], totalTextLength)]] :
          order \in SortOrders(n, cmp) }

----------------------------------------------------------------------------
(* generateAggregatedSummary *)

AggTopWordsLimit == 20

Tags == {"title", "h1", "h2", "body"}

\* sites = new Set([result.url]) in place of sites.add
AddSiteOverwriting(sites, url) == {url}

\* sites.add(result.url)
AddSite(sites, url) == sites \cup {url}

\* Lines 382-389 and 401-408 for the keys one result contributes, contrib
\* being [key, n] in the order the loop meets them: an entry is created
\* unless obj[key] exists, then n is added to its count and the url to its
\* sites.  (For an inherited key the code throws instead; see
\* AggregationThrows.)
Accumulate(obj, contrib, url) ==
    LET Add(e) == IF \E c \in 1..Len(contrib) : contrib[c].key = e.key
                  THEN LET c == CHOOSE c \in 1..Len(contrib) : contrib[c].key = e.key
                       IN  [key |-> e.key,
                            value |-> [count |-> e.value.count + contrib[c].n,
                                       sites |-> AddSite(e.value.sites, url)]]
                  ELSE e
        IsNew(c) == ~HasOwn(obj, c.key)
        created == SelectSeq(contrib, IsNew)
    IN  [i \in 1..Len(obj) |-> Add(obj[i])]
        \o [i \in 1..Len(created) |->
               [key |-> created[i].key,
                value |-> [count |-> created[i].n, sites |-> AddSite({}, url)]]]

IsCountedResultToken(token) == Counted(token.pos, token.surface)

\* what the tokens of one result add to wordFreq (lines 379-391)
TokenCounts(result) ==
    LET sel == SelectSeq(result.tokens, IsCountedResultToken)
    IN  FirstOccurrenceCounts([i \in 1..Len(sel) |-> sel[i].surface])

\* what the top words of one result's tag add to tagWordFreq[tagName]
\* (lines 398-409)
TopWordCounts(result, tagName) ==
    LET topWords == result.byTag[tagName].summary.topWords
    IN  [w \in 1..Len(topWords) |->
            [key |-> topWords[w].word, n |-> topWords[w].count.v]]

\* wordFreq after the first r results
RECURSIVE AggWordFreq(_, _)
AggWordFreq(res, r) ==
    IF r = 0 THEN <<>>
    ELSE Accumulate(AggWordFreq(res, r - 1), TokenCounts(res[r]), res[r].url)

\* tagWordFreq[tagName] after the first r results
RECURSIVE AggTagWordFreq(_, _, _)
AggTagWordFreq(res, tagName, r) ==
    IF r = 0 THEN <<>>
    ELSE Accumulate(AggTagWordFreq(res, tagName, r - 1),
                    TopWordCounts(res[r], tagName), res[r].url)

\* the sum of the title lengths in place of the text lengths
RECURSIVE TotalTitleLength(_)
TotalTitleLength(res) ==
    IF res = <<>> THEN 0
    ELSE Head(res).byTag.title.textLength + TotalTitleLength(Tail(res))

\* totalTextLength after results.forEach (line 376)
RECURSIVE TotalTextLength(_)
TotalTextLength(res) ==
    IF res = <<>> THEN 0
    ELSE Head(res).textLength + TotalTextLength(Tail(res))

\* tagTextLength[tagName] after results.forEach (line 396)
RECURSIVE TagTextLength(_, _)
TagTextLength(res, tagName) ==
    IF res = <<>> THEN 0
    ELSE Head(res).byTag[tagName].textLength + TagTextLength(Tail(res), tagName)

\* The first use of an inherited key throws a TypeError: obj[word] is the
\* inherited function, which is truthy, so no entry is created, and
\* obj[word].sites is undefined when .add is called on it.
AggregationThrows(res) ==
    \E r \in 1..Len(res) :
        \/ \E t \in 1..Len(res[r].tokens) :
              /\ Counted(res[r].tokens[t].pos, res[r].tokens[t].surface)
              /\ res[r].tokens[t].surface \in ProtoKeys
        \/ \E tagName \in Tags :
              \E w \in 1..Len(res[r].byTag[tagName].summary.topWords) :
                  res[r].byTag[tagName].summary.topWords[w].word \in ProtoKeys

\* the comparator without its second key
CompareSitesOnly(a, b) ==
    Sign(Cardinality(b.value.sites) - Cardinality(a.value.sites))

\* the comparator of lines 417-424 and 443-448: sites.size descending, then
\* count descending
CompareSites(a, b) ==
    IF Cardinality(b.value.sites) /= Cardinality(a.value.sites)
    THEN Sign(Cardinality(b.value.sites) - Cardinality(a.value.sites))
    ELSE Sign(b.value.count - a.value.count)

\* Object.entries(obj).sort(...).slice(0, 20): the comparator compares
\* numbers only, so it is consistent and the sort is the stable one
RankedEntries(obj) ==
    LET entries == ObjectEntries(obj)
        n == Len(entries)
        cmp == [p \in (1..n) \X (1..n) |->
                   CompareSites(entries[p[1]], entries[p[2]])]
        order == StableOrder(n, cmp)
    IN  Take([k \in 1..n |-> entries[order[k]]], AggTopWordsLimit)

\* lines 426-438: the percentage is not guarded
OverallTopWord(e, totalTextLength, nResults) ==
    [word           |-> e.key,
     count          |-> e.value.count,
     siteCount      |-> Cardinality(e.value.sites),
     sitePercentage |-> SitePercentage(Cardinality(e.value.sites), nResults),
     totalChars     |-> Len(e.key) * e.value.count,
     percentage     |-> Percentage(Num(Len(e.key) * e.value.count), totalTextLength)]

\* lines 450-464: '0.00' when tagTextLength[tagName] is 0
TagTopWord(e, tagTextLength, nResults) ==
    [word           |-> e.key,
     count          |-> e.value.count,
     siteCount      |-> Cardinality(e.value.sites),
     sitePercentage |-> SitePercentage(Cardinality(e.value.sites), nResults),
     totalChars     |-> Len(e.key) * e.value.count,
     percentage     |-> IF tagTextLength > 0
                        THEN Percentage(Num(Len(e.key) * e.value.count), tagTextLength)
                        ELSE Num(0)]

generateTagTopWords(res, tagName) ==
    LET ranked == RankedEntries(AggTagWordFreq(res, tagName, Len(res)))
    IN  [k \in 1..Len(ranked) |->
            TagTopWord(ranked[k], TagTextLength(res, tagName), Len(res))]

Thrown == [thrown |-> TRUE]

\* the value returned, or Thrown
generateAggregatedSummary(res) ==
    IF AggregationThrows(res) THEN Thrown
    ELSE LET ranked == RankedEntries(AggWordFreq(res, Len(res)))
         IN  [thrown          |-> FALSE,
              totalSites      |-> Len(res),
              totalTextLength |-> TotalTextLength(res),
              topWords        |-> [k \in 1..Len(ranked) |->
                                      OverallTopWord(ranked[k], TotalTextLength(res), Len(res))],
              byTag           |-> [tagName \in Tags |->
                                      [totalTextLength |-> TagTextLength(res, tagName),
                                       topWords |-> generateTagTopWords(res, tagName)]]]

----------------------------------------------------------------------------
(* The collaborators: the tokenizer and the pages the URLs serve *)

Letters == <<"a", "b", "c", "d", "e", "f", "g", "h", "i", "j", "k",
             "l", "m", "n", "o", "p", "q", "r", "s", "t", "u", "v">>

\* two-character surface forms
W(i) == <<"w", Letters[i]>>

Ten == <<"1", "0">>

Year == <<"2", "0", "2", "3">>

\* a noun of one character and a particle
Neko == <<"n">>

Ga == <<"g">>

Constructor == <<"c", "o", "n", "s", "t", "r", "u", "c", "t", "o", "r">>

\* A text is given by the morphemes kuromoji cuts it into: the records of
\* tok.tokenize, of which the code reads surface_form and pos.
N(w) == [surface_form |-> w, pos |-> Meishi]

P(w) == [surface_form |-> w, pos |-> Joshi]

\* the characters of morphemes lo..hi of a text
RECURSIVE SumLengths(_, _, _)
SumLengths(text, lo, hi) ==
    IF lo > hi THEN 0
    ELSE IF lo = hi THEN Len(text[lo].surface_form)
    ELSE SumLengths(text, lo, (lo + hi) \div 2)
         + SumLengths(text, ((lo + hi) \div 2) + 1, hi)

\* text.length
TextLength(text) == SumLengths(text, 1, Len(text))

\* tok.tokenize(text)
Tokenize(text) == text

Page(title, h1, h2, body) ==
    [title |-> title, h1 |-> h1, h2 |-> h2, body |-> body, text |-> body]

Page1 == Page(<<N(W(1))>>, <<>>, <<>>, <<N(W(1)), P(Ga), N(Neko)>>)

Page2 == Page(<<N(W(1)), N(W(2))>>, <<N(W(2))>>, <<>>, <<N(W(1)), N(W(1)), P(Ga)>>)

PageDigits == Page(<<>>, <<>>, <<N(W(3))>>, <<N(W(3)), N(Year), N(Ten), P(Ga)>>)

\* eleven nouns once each, then "10"
Page11 == Page(<<N(W(4))>>, <<>>, <<>>, [i \in 1..11 |-> N(W(i + 3))] \o <<N(Ten)>>)

\* twenty nouns twice each
PageMany == Page(<<>>, <<>>, <<>>, [i \in 1..40 |-> N(W(((i - 1) % 20) + 2))])

PageLong == Page(<<N(W(22))>>, <<>>, <<>>, [i \in 1..LongLen |-> P(Ga)])

PageProto ==
    Page(<<N(W(1)), N(Constructor), N(W(2)), N(W(2))>>, <<>>, <<>>,
         <<N(Constructor), P(Ga)>>)

EmptyPage == Page(<<>>, <<>>, <<>>, <<>>)

\* a string value: optional surrounding white space, a scheme, the rest
Url(pad, scheme, rest) ==
    [kind |-> "string", pad |-> pad, scheme |-> scheme, rest |-> rest]

EmptyString == Url(FALSE, "", "")

UrlPool ==
    { Url(FALSE, "https://", "a"), Url(TRUE, "https://", "a"),
      Url(FALSE, "http://", "a"),  Url(FALSE, "https://", "b"),
      Url(FALSE, "http://", "c"),  Url(FALSE, "https://", "d"),
      Url(FALSE, "https://", "e"), Url(FALSE, "https://", "f"),
      Url(FALSE, "https://", "g"), Url(FALSE, "https://", "h"),
      Url(FALSE, "https://", "i"), Url(FALSE, "ftp://", "a") }

\* what axios.get and cheerio make of the url: a page, or an error
Web(url) ==
    CASE url.rest = "a" -> [ok |-> TRUE, page |-> Page1]
      [] url.rest = "b" -> [ok |-> TRUE, page |-> Page2]
      [] url.rest = "c" -> [ok |-> TRUE, page |-> PageDigits]
      [] url.rest = "d" -> [ok |-> TRUE, page |-> Page11]
      [] url.rest = "e" -> [ok |-> TRUE, page |-> PageMany]
      [] url.rest = "f" -> [ok |-> TRUE, page |-> PageLong]
      [] url.rest = "g" -> [ok |-> TRUE, page |-> PageProto]
      [] url.rest = "i" -> [ok |-> TRUE, page |-> EmptyPage]
      [] OTHER          -> [ok |-> FALSE, page |-> EmptyPage]

\* url.trim()
Trim(url) == [url EXCEPT !.pad = FALSE]

\* url.startsWith('http://') || url.startsWith('https://')
StartsWithHttp(url) == ~url.pad /\ url.scheme \in {"http://", "https://"}

\* !url
Falsy(url) == url.kind = "undefined" \/ url = EmptyString

\* fetchWebPage(url): the page data, or the error thrown
fetchWebPage(url) ==
    IF Web(url).ok
    THEN [ok |-> TRUE, pageData |-> Web(url).page]
    ELSE [ok |-> FALSE, message |-> "FETCH_FAILED"]

----------------------------------------------------------------------------
(* The analysis of one page, the same code in both handlers *)

\* the object the handlers make of a token
ResultToken(token) == [surface |-> token.surface_form, pos |-> token.pos]

ResultTokens(tokens) == [k \in 1..Len(tokens) |-> ResultToken(tokens[k])]

\* the values analyzeTag(text) can return
analyzeTag(text) ==
    IF text = <<>>
    THEN {[tokens |-> <<>>, summary |-> [topWords |-> <<>>]]}
    ELSE {[tokens |-> ResultTokens(Tokenize(text)), summary |-> s] :
             s \in generateSummary(Tokenize(text), TextLength(text))}

\* the texts handed to tok.tokenize while a page is analysed
Tokenized(pageData) == {tagName \in Tags : pageData[tagName] /= <<>>} \cup {"text"}

TagResult(text, analysis) ==
    [text       |-> text,
     textLength |-> TextLength(text),
     tokenCount |-> Len(analysis.tokens),
     summary    |-> analysis.summary]

\* the result objects of lines 139-183 and 253-297
PageResults(url, pageData) ==
    LET tokens == Tokenize(pageData.text)
    IN  { [url        |-> url,
           title      |-> pageData.title,
           bodyText   |-> pageData.body,
           textLength |-> TextLength(pageData.text),
           tokenCount |-> Len(tokens),
           tokens     |-> ResultTokens(tokens),
           summary    |-> s,
           byTag      |-> [title |-> TagResult(pageData.title, ta),
                           h1    |-> TagResult(pageData.h1, h1a),
                           h2    |-> TagResult(pageData.h2, h2a),
                           body  |-> TagResult(pageData.body, ba)]] :
          ta \in analyzeTag(pageData.title), h1a \in analyzeTag(pageData.h1),
          h2a \in analyzeTag(pageData.h2), ba \in analyzeTag(pageData.body),
          s \in generateSummary(tokens, TextLength(pageData.text)) }

----------------------------------------------------------------------------
(* The requests *)

BatchLimit == 20

NoRequest == [endpoint |-> "none"]

NoResponse == [status |-> 0]

\* the url of a body of POST /api/analyze: missing, empty or a string
SingleBodies == {Undefined, EmptyString} \cup UrlPool

\* a list of n urls: two that serve a page, around urls of the wrong scheme
\* and urls whose fetch fails
LongList(n) ==
    [i \in 1..n |->
        IF i = 1 THEN Url(FALSE, "https://", "a")
        ELSE IF i = n THEN Url(FALSE, "https://", "b")
        ELSE IF i % 2 = 0 THEN Url(FALSE, "ftp://", "a")
        ELSE Url(FALSE, "https://", "h")]

\* the URLs of batch requests: the pool without the two longest pages
BatchPool ==
    UrlPool \ {Url(FALSE, "https://", "d"), Url(FALSE, "https://", "f")}

\* the URLs of the entries after the second: two pages, a page that cannot
\* be fetched, and a URL of another scheme
LaterPool ==
    { Url(FALSE, "https://", "b"), Url(FALSE, "https://", "e"),
      Url(FALSE, "https://", "h"), Url(FALSE, "ftp://", "a") }

UrlLists ==
    {l \in UNION {[1..k -> BatchPool] : k \in 0..MaxUrls} :
        \A i \in 3..Len(l) : l[i] \in LaterPool}
    \cup {LongList(BatchLimit), LongList(BatchLimit + 1)}

Array(items) == [kind |-> "array", items |-> items]

\* the urls of a body of POST /api/analyze-multiple: missing, a string
\* instead of a list, or a list of strings
BatchBodies ==
    {Undefined, Url(FALSE, "https://", "a")} \cup {Array(l) : l \in UrlLists}

----------------------------------------------------------------------------
(* initTokenizer and startServer *)

Init ==
    /\ tokenizer = NULL
    /\ builds = 0
    /\ inflight = {}
    /\ srv = "start"
    /\ hpc = "idle"
    /\ req = NoRequest
    /\ idx = 0
    /\ results = <<>>
    /\ errors = <<>>
    /\ fetches = 0
    /\ tokCalls = <<>>
    /\ response = NoResponse

\* lines 20-25: a call resolves with the cached tokenizer if there is one,
\* and calls kuromoji.builder(...).build otherwise
InitTokenizerStartsBuild == tokenizer = NULL

\* a call of initTokenizer by caller
InitTokenizer(caller) ==
    IF InitTokenizerStartsBuild
    THEN /\ builds' = builds + 1
         /\ inflight' = inflight \cup {caller}
         /\ UNCHANGED tokenizer
    ELSE UNCHANGED <<builds, inflight, tokenizer>>

\* startServer calling app.listen without awaiting initTokenizer
StartServerWithoutAwait ==
    /\ srv = "start"
    /\ InitTokenizer("startServer")
    /\ srv' = "listening"
    /\ UNCHANGED <<hpc, req, idx, results, errors, fetches, tokCalls, response>>

\* startServer up to its await: app.listen waits for the build
StartServer ==
    /\ srv = "start"
    /\ InitTokenizer("startServer")
    /\ srv' = "initializing"
    /\ UNCHANGED <<hpc, req, idx, results, errors, fetches, tokCalls, response>>

\* where a handler goes on once its await of initTokenizer resolves
AfterInit == IF req.endpoint = "analyze" THEN "single_analyze" ELSE "batch_loop"

\* build's callback without err (lines 29-30): the tokenizer is cached and
\* the caller resumes; startServer goes on to app.listen
BuildDone ==
    \E caller \in inflight :
        /\ tokenizer' = "tok"
        /\ inflight' = inflight \ {caller}
        /\ IF caller = "startServer"
           THEN srv' = "listening" /\ UNCHANGED hpc
           ELSE hpc' = AfterInit /\ UNCHANGED srv
        /\ UNCHANGED <<builds, req, idx, results, errors, fetches, tokCalls, response>>

\* build's callback with err (line 27): startServer's catch ends the process;
\* a handler's catch answers 500
BuildFail ==
    \E caller \in inflight :
        /\ inflight' = inflight \ {caller}
        /\ IF caller = "startServer"
           THEN srv' = "exited" /\ UNCHANGED <<hpc, response>>
           ELSE /\ hpc' = "done"
                /\ response' = [status |-> 500, body |-> [error |-> "BUILD_FAILED"]]
                /\ UNCHANGED srv
        /\ UNCHANGED <<tokenizer, builds, req, idx, results, errors, fetches, tokCalls>>

\* the server takes a request once it listens; the model follows one request
\* at a time
Accepting == srv = "listening" /\ hpc = "idle"

\* the response is sent and what the request built is dropped
RequestEnds ==
    /\ hpc = "done"
    /\ hpc' = "idle"
    /\ req' = NoRequest
    /\ idx' = 0
    /\ results' = <<>>
    /\ errors' = <<>>
    /\ fetches' = 0
    /\ tokCalls' = <<>>
    /\ response' = NoResponse
    /\ UNCHANGED <<tokenizer, builds, inflight, srv>>

----------------------------------------------------------------------------
(* POST /api/analyze *)

\* the results of analysing the pages of the pool's URLs, evaluated once
Analyses ==
    [url \in {Trim(u) : u \in UrlPool} |->
        IF StartsWithHttp(url) /\ fetchWebPage(url).ok
        THEN PageResults(url, fetchWebPage(url).pageData)
        ELSE {}]

SingleStart ==
    /\ Accepting
    /\ \E url \in SingleBodies :
        /\ req' = [endpoint |-> "analyze", url |-> url]
        /\ IF Falsy(url)
           THEN /\ response' = [status |-> 400, body |-> [error |-> "URL_MISSING"]]
                /\ hpc' = "done"
                /\ fetches' = 0
           ELSE IF ~StartsWithHttp(url)
           THEN /\ response' = [status |-> 400, body |-> [error |-> "URL_INVALID"]]
                /\ hpc' = "done"
                /\ fetches' = 0
           ELSE /\ response' = NoResponse
                /\ hpc' = "single_fetch"
                /\ fetches' = 1
    /\ idx' = 0
    /\ results' = <<>>
    /\ errors' = <<>>
    /\ tokCalls' = <<>>
    /\ UNCHANGED <<tokenizer, builds, inflight, srv>>

\* fetchWebPage settles; on success the handler calls initTokenizer
SingleFetched ==
    /\ hpc = "single_fetch"
    /\ IF fetchWebPage(req.url).ok
       THEN /\ InitTokenizer("handler")
            /\ hpc' = IF InitTokenizerStartsBuild THEN "await_init" ELSE "single_analyze"
            /\ UNCHANGED response
       ELSE /\ response' = [status |-> 500,
                            body |-> [error |-> fetchWebPage(req.url).message]]
            /\ hpc' = "done"
            /\ UNCHANGED <<tokenizer, builds, inflight>>
    /\ UNCHANGED <<srv, req, idx, results, errors, fetches, tokCalls>>

\* lines 110-185
SingleAnalyze ==
    /\ hpc = "single_analyze"
    /\ \E result \in Analyses[req.url] :
           response' = [status |-> 200, body |-> result]
    /\ tokCalls' = <<Tokenized(fetchWebPage(req.url).pageData)>>
    /\ hpc' = "done"
    /\ UNCHANGED <<tokenizer, builds, inflight, srv, req, idx, results, errors, fetches>>

----------------------------------------------------------------------------
(* POST /api/analyze-multiple *)

\* the size check off by one
BatchRejectionOffByOne(urls) ==
    IF urls.kind /= "array" \/ Falsy(urls) THEN "URL_LIST_MISSING"
    ELSE IF Len(urls.items) = 0 THEN "URL_LIST_MISSING"
    ELSE IF Len(urls.items) > BatchLimit + 1 THEN "TOO_MANY_URLS"
    ELSE "none"

\* lines 197-203
BatchRejection(urls) ==
    IF urls.kind /= "array" \/ Falsy(urls) THEN "URL_LIST_MISSING"
    ELSE IF Len(urls.items) = 0 THEN "URL_LIST_MISSING"
    ELSE IF Len(urls.items) > BatchLimit THEN "TOO_MANY_URLS"
    ELSE "none"

BatchStart ==
    /\ Accepting
    /\ \E urls \in BatchBodies :
        /\ req' = [endpoint |-> "analyze-multiple", urls |-> urls]
        /\ IF BatchRejection(urls) /= "none"
           THEN /\ response' = [status |-> 400, body |-> [error |-> BatchRejection(urls)]]
                /\ hpc' = "done"
                /\ UNCHANGED <<tokenizer, builds, inflight>>
           ELSE /\ response' = NoResponse
                /\ InitTokenizer("handler")
                /\ hpc' = IF InitTokenizerStartsBuild THEN "await_init" ELSE "batch_loop"
    /\ idx' = 1
    /\ results' = <<>>
    /\ errors' = <<>>
    /\ fetches' = 0
    /\ tokCalls' = <<>>
    /\ UNCHANGED srv

\* one turn of the loop of lines 212-301
BatchIter ==
    /\ hpc = "batch_loop"
    /\ idx <= Len(req.urls.items)
    /\ LET url == Trim(req.urls.items[idx])
       IN  IF ~StartsWithHttp(url)
           THEN /\ errors' = Append(errors, [url |-> url, error |-> "URL_FORMAT"])
                /\ UNCHANGED <<results, fetches, tokCalls>>
           ELSE /\ fetches' = fetches + 1
                /\ IF fetchWebPage(url).ok
                   THEN /\ \E result \in Analyses[url] :
                               results' = Append(results, result)
                        /\ tokCalls' = Append(tokCalls, Tokenized(fetchWebPage(url).pageData))
                        /\ UNCHANGED errors
                   ELSE /\ errors' = Append(errors,
                                [url |-> url, error |-> fetchWebPage(url).message])
                        /\ UNCHANGED <<results, tokCalls>>
    /\ idx' = idx + 1
    /\ UNCHANGED <<tokenizer, builds, inflight, srv, hpc, req, response>>

\* lines 303-318: the aggregation and the response, or the outer catch
BatchFinish ==
    /\ hpc = "batch_loop"
    /\ idx > Len(req.urls.items)
    /\ response' =
         IF generateAggregatedSummary(results).thrown
         THEN [status |-> 500, body |-> [error |-> "TypeError"]]
         ELSE [status |-> 200,
               body |-> [success           |-> TRUE,
                         totalUrls         |-> Len(req.urls.items),
                         successCount      |-> Len(results),
                         errorCount        |-> Len(errors),
                         results           |-> results,
                         errors            |-> errors,
                         aggregatedSummary |-> generateAggregatedSummary(results)]]
    /\ hpc' = "done"
    /\ UNCHANGED <<tokenizer, builds, inflight, srv, req, idx, results, errors,
                   fetches, tokCalls>>

----------------------------------------------------------------------------

Next ==
    \/ StartServer
    \/ BuildDone
    \/ BuildFail
    \/ SingleStart
    \/ SingleFetched
    \/ SingleAnalyze
    \/ BatchStart
    \/ BatchIter
    \/ BatchFinish
    \/ RequestEnds

Spec == Init /\ [][Next]_vars

----------------------------------------------------------------------------
(* The claims *)

Done == hpc = "done"

IsSingle == req.endpoint = "analyze"

IsBatch == req.endpoint = "analyze-multiple"

SingleAnswered == Done /\ IsSingle /\ response.status = 200

BatchAnswered == Done /\ IsBatch /\ response.status = 200

\* C1: every POST /api/analyze-multiple request whose urls list has N
\* entries, 1 <= N <= 20, is answered with successCount + errorCount = N =
\* totalUrls, successCount results and errorCount errors, whichever entries
\* fail.
C1_BatchNeverAborted ==
    (/\ Done
     /\ IsBatch
     /\ req.urls.kind = "array"
     /\ Len(req.urls.items) \in 1..20)
    => /\ response.status = 200
       /\ response.body.totalUrls = Len(req.urls.items)
       /\ response.body.successCount + response.body.errorCount = Len(req.urls.items)
       /\ Len(response.body.results) = response.body.successCount
       /\ Len(response.body.errors) = response.body.errorCount

\* C2, as claimed: while a build is in flight (the tokenizer is not set
\* yet), a call of initTokenizer waits for it and starts no second build.
C2_CallJoinsBuildInFlight == (inflight /= {}) => ~InitTokenizerStartsBuild

\* C2, amended: the dictionary build runs at most once per process because a
\* request handler only ever calls initTokenizer with the tokenizer cached
\* (startServer awaits its own call before app.listen), so no handler starts
\* or waits for a build.
C2_OneBuildPerProcess ==
    /\ builds <= 1
    /\ hpc /= "await_init"
    /\ (hpc /= "idle" => tokenizer /= NULL /\ inflight = {})

C2_Witness == hpc = "batch_loop" /\ builds = 1 /\ tokenizer /= NULL

\* the first 100 tokens, the documented limit of the displayed list
TokenDisplayLimit == 100

\* C3: a successful response of POST /api/analyze carries at most 100
\* tokens, the first 100 of the body, while tokenCount counts all of them.
C3_TokensCapped ==
    SingleAnswered =>
        LET all == ResultTokens(Tokenize(fetchWebPage(req.url).pageData.text))
        IN  /\ Len(response.body.tokens) <= TokenDisplayLimit
            /\ response.body.tokens = Take(all, TokenDisplayLimit)
            /\ response.body.tokenCount = Len(all)

EmptySummary == [posCount |-> <<>>, topWords |-> <<>>]

\* what C4 says of one analysed page: result is its result object and
\* tokenized the texts handed to the tokenizer for it
EmptyTextsSummarized(result, tokenized) ==
    /\ \A tagName \in Tags :
          result.byTag[tagName].text = <<>>
          => /\ result.byTag[tagName].summary = EmptySummary
             /\ tagName \notin tokenized
    /\ result.textLength = 0
       => /\ result.summary = EmptySummary
          /\ "text" \notin tokenized

\* C4: for every region and for the whole-page text, an empty text gets the
\* summary {posCount: {}, topWords: []} and is not handed to the tokenizer.
C4_EmptyTextSummary ==
    /\ SingleAnswered => EmptyTextsSummarized(response.body, tokCalls[1])
    /\ hpc = "batch_loop" =>
          \A k \in 1..Len(results) : EmptyTextsSummarized(results[k], tokCalls[k])

WordSet(topWords) == {topWords[k].word : k \in 1..Len(topWords)}

Permuted(res, p) == [k \in 1..Len(res) |-> res[p[k]]]

\* the words of the five aggregated lists are those of the response
SameWordSets(agg) ==
    /\ ~agg.thrown
    /\ WordSet(agg.topWords) = WordSet(response.body.aggregatedSummary.topWords)
    /\ \A tagName \in Tags :
          WordSet(agg.byTag[tagName].topWords)
              = WordSet(response.body.aggregatedSummary.byTag[tagName].topWords)

\* C5, as claimed: the words of the aggregated topWords, overall and per
\* region, are the same for every permutation of the page results.
C5_WordSetOrderIndependent ==
    BatchAnswered =>
        \A p \in Permutations(1..Len(results)) :
            SameWordSets(generateAggregatedSummary(Permuted(results, p)))

\* more than 20 words qualify and words of one rank (siteCount, count) lie
\* on both sides of the cut at 20
TieStraddlesCut(obj) ==
    \E i \in 1..Len(obj) :
        LET Sites(e) == Cardinality(e.value.sites)
            better == Cardinality({j \in 1..Len(obj) :
                         \/ Sites(obj[j]) > Sites(obj[i])
                         \/ /\ Sites(obj[j]) = Sites(obj[i])
                            /\ obj[j].value.count > obj[i].value.count})
            same == Cardinality({j \in 1..Len(obj) :
                         /\ Sites(obj[j]) = Sites(obj[i])
                         /\ obj[j].value.count = obj[i].value.count})
        IN  better < 20 /\ better + same > 20

\* C5, amended: each aggregated list has the same words for every
\* permutation of the page results, unless words tied on (siteCount, count)
\* straddle its cut at 20.
C5_WordSetOrderIndependentUnlessTieAtCut ==
    BatchAnswered =>
        \A p \in Permutations(1..Len(results)) :
            LET agg == generateAggregatedSummary(Permuted(results, p))
                mine == response.body.aggregatedSummary
            IN  /\ ~agg.thrown
                /\ ~TieStraddlesCut(AggWordFreq(results, Len(results)))
                   => WordSet(agg.topWords) = WordSet(mine.topWords)
                /\ \A tagName \in Tags :
                      ~TieStraddlesCut(AggTagWordFreq(results, tagName, Len(results)))
                      => WordSet(agg.byTag[tagName].topWords)
                             = WordSet(mine.byTag[tagName].topWords)

\* two pages of different URLs, more than 20 qualifying words, no tie at
\* the cut
C5_Witness ==
    /\ BatchAnswered
    /\ Len(results) = 2
    /\ results[1].url /= results[2].url
    /\ Len(AggWordFreq(results, 2)) > 20
    /\ ~TieStraddlesCut(AggWordFreq(results, 2))

\* what C6 says of the summary of the tokens of a text
SummaryMeetsContract(summary, tokens) ==
    LET topWords == summary.topWords
        Occurrences(w) ==
            Cardinality({i \in 1..Len(tokens) :
                /\ tokens[i].pos = Meishi
                /\ Len(tokens[i].surface) > 1
                /\ tokens[i].surface = w})
    IN  /\ Len(topWords) <= 10
        /\ \A k \in 1..Len(topWords) :
              /\ Len(topWords[k].word) > 1
              /\ Occurrences(topWords[k].word) >= 1
              /\ topWords[k].count = Num(Occurrences(topWords[k].word))
              /\ topWords[k].totalChars
                     = Num(Len(topWords[k].word) * Occurrences(topWords[k].word))
        /\ \A k \in 1..(Len(topWords) - 1) :
              topWords[k].count.v >= topWords[k + 1].count.v
        /\ DOMAIN summary.posCount = {tokens[i].pos : i \in 1..Len(tokens)}
        /\ \A p \in DOMAIN summary.posCount :
              summary.posCount[p]
                  = Cardinality({i \in 1..Len(tokens) : tokens[i].pos = p})

\* C6: for a text of length > 0, topWords has at most 10 entries in
\* non-increasing order of count, each a noun surface form longer than one
\* character with its number of tokens as count and length x count as
\* totalChars, and posCount counts the tokens of each part of speech.
C6_SummaryContract ==
    (SingleAnswered /\ response.body.textLength > 0)
    => SummaryMeetsContract(response.body.summary, response.body.tokens)

\* C7: each entry of the overall aggregated topWords has as count the
\* number of noun tokens longer than one character with its surface form
\* over all results, as siteCount the number of distinct result URLs with
\* such a token; the entries are in order of siteCount, then count,
\* descending; there are at most 20, the best ranked; and a word whose
\* siteCount is the number of results has sitePercentage 100.0.
C7_OverallTopWords ==
    BatchAnswered =>
        LET rs == response.body.results
            topWords == response.body.aggregatedSummary.topWords
            Hits(w) == UNION {{<<r, t>> : t \in
                                  {u \in 1..Len(rs[r].tokens) :
                                      /\ rs[r].tokens[u].pos = Meishi
                                      /\ Len(rs[r].tokens[u].surface) > 1
                                      /\ rs[r].tokens[u].surface = w}} :
                              r \in 1..Len(rs)}
            SitesOf(w) == {rs[x[1]].url : x \in Hits(w)}
            Qualifying == UNION {{rs[r].tokens[t].surface : t \in
                                     {u \in 1..Len(rs[r].tokens) :
                                         /\ rs[r].tokens[u].pos = Meishi
                                         /\ Len(rs[r].tokens[u].surface) > 1}} :
                                 r \in 1..Len(rs)}
            Outranks(v, w) ==
                \/ Cardinality(SitesOf(v)) > Cardinality(SitesOf(w))
                \/ /\ Cardinality(SitesOf(v)) = Cardinality(SitesOf(w))
                   /\ Cardinality(Hits(v)) > Cardinality(Hits(w))
        IN  /\ Len(topWords) <= 20
            /\ Cardinality(WordSet(topWords)) = Len(topWords)
            /\ Len(topWords) = 20 \/ WordSet(topWords) = Qualifying
            /\ \A k \in 1..Len(topWords) :
                  /\ topWords[k].word \in Qualifying
                  /\ topWords[k].count = Cardinality(Hits(topWords[k].word))
                  /\ topWords[k].siteCount = Cardinality(SitesOf(topWords[k].word))
                  /\ topWords[k].siteCount = Len(rs)
                     => topWords[k].sitePercentage = Num(1000)
                  /\ \A v \in Qualifying \ WordSet(topWords) :
                        ~Outranks(v, topWords[k].word)
            /\ \A k \in 1..(Len(topWords) - 1) :
                  ~Outranks(topWords[k + 1].word, topWords[k].word)

\* the scenario of C7: a noun once on each of two pages of different URLs
C7_Witness ==
    /\ BatchAnswered
    /\ Len(results) = 2
    /\ results[1].url /= results[2].url
    /\ \E k \in 1..Len(response.body.aggregatedSummary.topWords) :
          /\ response.body.aggregatedSummary.topWords[k].count = 2
          /\ response.body.aggregatedSummary.topWords[k].siteCount = 2
          /\ response.body.aggregatedSummary.topWords[k].sitePercentage = Num(1000)

\* no entry of a list is the outcome of a division by zero: over a
\* denominator of 0 every percentage is 0, and none is Infinity
NoDivisionByZero(topWords, denominator) ==
    \A k \in 1..Len(topWords) :
        /\ topWords[k].percentage.t /= "Infinity"
        /\ denominator = 0 => topWords[k].percentage = Num(0)

PagePercentagesSafe(result) ==
    /\ NoDivisionByZero(result.summary.topWords, result.textLength)
    /\ \A tagName \in Tags :
          NoDivisionByZero(result.byTag[tagName].summary.topWords,
                           result.byTag[tagName].textLength)

\* C8: no percentage of a response is computed by dividing by zero: not in
\* a page's summaries, not in the aggregated per-region lists (guarded), and
\* not in the overall aggregated list (unguarded, but without entries when
\* totalTextLength is 0); sitePercentage divides by the number of results.
C8_NoDivisionByZero ==
    /\ SingleAnswered => PagePercentagesSafe(response.body)
    /\ \A r \in 1..Len(results) : PagePercentagesSafe(results[r])
    /\ BatchAnswered =>
          LET agg == response.body.aggregatedSummary
          IN  /\ NoDivisionByZero(agg.topWords, agg.totalTextLength)
              /\ \A tagName \in Tags :
                    NoDivisionByZero(agg.byTag[tagName].topWords,
                                     agg.byTag[tagName].totalTextLength)
              /\ \A k \in 1..Len(agg.topWords) :
                    /\ agg.totalSites > 0
                    /\ agg.topWords[k].sitePercentage.t = "number"

\* a batch answered over a page without any text: the overall aggregate has
\* a denominator of 0 and no entry
C8_Witness ==
    /\ BatchAnswered
    /\ Len(results) >= 1
    /\ response.body.aggregatedSummary.totalTextLength = 0
    /\ response.body.aggregatedSummary.topWords = <<>>

\* C9: a POST /api/analyze-multiple request whose urls is missing, not a
\* list, empty, or longer than 20 is answered 400 without any fetch and
\* without any result or error entry.
C9_InvalidListRejected ==
    (IsBatch /\ (\/ req.urls.kind /= "array"
                 \/ Len(req.urls.items) = 0
                 \/ Len(req.urls.items) > 20))
    => /\ Done
       /\ response.status = 400
       /\ fetches = 0
       /\ results = <<>>
       /\ errors = <<>>
       /\ tokCalls = <<>>

\* a list of 21 entries rejected
C9_Witness ==
    /\ IsBatch
    /\ req.urls.kind = "array"
    /\ Len(req.urls.items) = 21
    /\ response.status = 400
    /\ fetches = 0

\* C10: words of equal count appear in topWords in the order of their first
\* occurrence in the token stream, whatever their characters, and that
\* order decides which of them survive the cut at 10.
C10_TiesInFirstOccurrenceOrder ==
    SingleAnswered =>
        LET topWords == response.body.summary.topWords
            tokens == response.body.tokens
            First(w) == CHOOSE i \in 1..Len(tokens) :
                            /\ tokens[i].surface = w
                            /\ \A j \in 1..(i - 1) : tokens[j].surface /= w
            Occurrences(w) ==
                Cardinality({i \in 1..Len(tokens) :
                    /\ tokens[i].pos = Meishi
                    /\ tokens[i].surface = w})
            Left == {tokens[i].surface : i \in {j \in 1..Len(tokens) :
                        /\ tokens[j].pos = Meishi
                        /\ Len(tokens[j].surface) > 1}} \ WordSet(topWords)
        IN  /\ \A i, j \in 1..Len(topWords) :
                  (i < j /\ topWords[i].count = topWords[j].count)
                  => First(topWords[i].word) < First(topWords[j].word)
            /\ \A w \in Left : \A k \in 1..Len(topWords) :
                  topWords[k].count = Num(Occurrences(w))
                  => First(topWords[k].word) < First(w)

====
